---- MODULE Spec2Model ----
(***************************************************************************)
(* Model of patent_categorizer_ui.py: the identifier normalizer, the       *)
(* SQLite cache table patent_cache, query_patent (cache lookup, the        *)
(* PatentSearch request, the legacy requests) and categorize_with_llm.     *)
(*                                                                         *)
(* Python strings are sequences of one-character strings.  The Python      *)
(* value None is the sequence <<"None">>, which no string equals because   *)
(* "None" is not a single character.  The two patent types are the tokens  *)
(* "Granted Patent" and "Patent Application"; a cache key is the token of  *)
(* the type, the character "_" and the characters of the normalized        *)
(* number, so it never equals a string made of characters only.            *)
(***************************************************************************)
EXTENDS Integers, Sequences, FiniteSets, TLC

\* ------------------------------------------------------------------------
\* Bounds of the model
\* ------------------------------------------------------------------------
\* script runs (submissions of the form) in one behaviour of Spec
MaxRuns == 2

\* script runs in one behaviour of SpecCall
CallRuns == 1

\* length of the texts typed in SpecNormalize, all of them up to it
MaxLen == 3

\* ------------------------------------------------------------------------
\* Python values
\* ------------------------------------------------------------------------
None == <<"None">>

Truthy(v) == v # None /\ v # <<>>

\* Python's `a or b`
PyOr(a, b) == IF Truthy(a) THEN a ELSE b

\* dict.get(key) with the default None
Get(d, key) == IF key \in DOMAIN d THEN d[key] ELSE None

\* dict.get(key, default)
GetOr(d, key, default) == IF key \in DOMAIN d THEN d[key] ELSE default

Min(a, b) == IF a <= b THEN a ELSE b

\* ------------------------------------------------------------------------
\* Strings
\* ------------------------------------------------------------------------
Whitespace == {" ", "\n"}

RECURSIVE LStrip(_)
LStrip(s) ==
    IF s # <<>> /\ Head(s) \in Whitespace THEN LStrip(Tail(s)) ELSE s

RECURSIVE RStrip(_)
RStrip(s) ==
    IF s # <<>> /\ s[Len(s)] \in Whitespace
    THEN RStrip(SubSeq(s, 1, Len(s) - 1))
    ELSE s

\* str.strip()
Strip(s) == RStrip(LStrip(s))

\* str.startswith(prefix)
StartsWith(s, prefix) ==
    Len(s) >= Len(prefix) /\ SubSeq(s, 1, Len(prefix)) = prefix

\* str.endswith(suffix)
EndsWith(s, suffix) ==
    Len(s) >= Len(suffix)
    /\ SubSeq(s, Len(s) - Len(suffix) + 1, Len(s)) = suffix

\* str.replace(old, ""): occurrences of old are removed scanning from the
\* left, without overlap, in a single pass
RECURSIVE Remove(_, _)
Remove(s, old) ==
    IF Len(s) < Len(old) THEN s
    ELSE IF SubSeq(s, 1, Len(old)) = old
         THEN Remove(SubSeq(s, Len(old) + 1, Len(s)), old)
         ELSE <<Head(s)>> \o Remove(Tail(s), old)

\* ------------------------------------------------------------------------
\* normalize_patent_number
\* ------------------------------------------------------------------------
GrantedPatent == "Granted Patent"
PatentApplication == "Patent Application"
PatentTypes == {GrantedPatent, PatentApplication}

\* the string of a patent type: one token
TypeStr(patent_type) == <<patent_type>>

\* line 33
CleanInput(patent_input) ==
    Remove(Remove(Remove(Strip(patent_input), <<",">>), <<"/">>), <<"-">>)

\* the kind code A1 is left in place
StripKindCodesNoA1(clean_input) ==
    Remove(Remove(Remove(clean_input, <<"U", "S">>), <<"B", "1">>),
           <<"B", "2">>)

\* line 47
StripKindCodes(clean_input) ==
    Remove(Remove(Remove(Remove(clean_input, <<"U", "S">>), <<"B", "1">>),
                  <<"B", "2">>), <<"A", "1">>)

\* the length tested at line 37 is the length of the text typed
normalize_by_raw_length(patent_input, patent_type) ==
    LET clean_input == CleanInput(patent_input) IN
    IF patent_type = PatentApplication
    THEN IF Len(patent_input) = 11 /\ StartsWith(clean_input, <<"2", "0">>)
         THEN <<clean_input, "publication_number">>
         ELSE <<clean_input, "application_number">>
    ELSE <<Strip(StripKindCodes(clean_input)), "patent_number">>

\* returns <<normalized_number, field_type>>
normalize_patent_number(patent_input, patent_type) ==
    LET clean_input == CleanInput(patent_input) IN
    IF patent_type = PatentApplication
    THEN IF Len(clean_input) = 11 /\ StartsWith(clean_input, <<"2", "0">>)
         THEN <<clean_input, "publication_number">>
         ELSE IF Len(clean_input) >= 7
              THEN <<clean_input, "application_number">>
              ELSE <<clean_input, "application_number">>
    ELSE <<Strip(StripKindCodes(clean_input)), "patent_number">>

\* ------------------------------------------------------------------------
\* JSON texts (json.dumps / json.loads, response.json())
\* ------------------------------------------------------------------------
\* A JSON text is a tagged tuple: <<"null">>, <<"string", s>>,
\* <<"array", texts>>, <<"object", members>> with members a sequence of
\* <<key, text>> pairs in the dict's insertion order.  <<"garbage">> is a
\* text that is not JSON.

\* every key a patent dict of a response or of a record may have, in the
\* order the dicts are built
PatentKeys ==
    <<"patent_id", "patent_number", "patent_title", "patent_abstract",
      "patent_date", "publication_date", "filing_date", "app_date",
      "application_number", "publication_number", "assignee_organization",
      "inventor_name_first", "inventor_name_last", "inventor_first_name",
      "inventor_last_name", "patent_type">>

KeysOf(d) == SelectSeq(PatentKeys, LAMBDA k : k \in DOMAIN d)

DumpsValue(v) == IF v = None THEN <<"null">> ELSE <<"string", v>>

LoadsValue(t) == IF t[1] = "null" THEN None ELSE t[2]

DumpsPatent(p) ==
    <<"object", [i \in 1..Len(KeysOf(p)) |->
                    <<KeysOf(p)[i], DumpsValue(p[KeysOf(p)[i]])>>]>>

LoadsPatent(t) ==
    LET members == t[2] IN
    [k \in {members[i][1] : i \in 1..Len(members)} |->
        LoadsValue(members[CHOOSE i \in 1..Len(members) :
                               members[i][1] = k][2])]

\* json.dumps of a dict {"patents": [...]}
Dumps(data) ==
    <<"object",
      << <<"patents",
           <<"array", [i \in 1..Len(data.patents) |->
                          DumpsPatent(data.patents[i])]>> >> >> >>

IsJson(text) == text[1] # "garbage"

\* only the first patent is read back
LoadsFirst(text) ==
    [patents |-> <<LoadsPatent(text[2][1][2][2][1])>>]

\* json.loads of a text written by Dumps; only called when IsJson(text)
Loads(text) ==
    LET arr == text[2][1][2][2] IN
    [patents |-> [i \in 1..Len(arr) |-> LoadsPatent(arr[i])]]

Garbage == <<"garbage">>

\* ------------------------------------------------------------------------
\* The table patent_cache (patent_number TEXT PRIMARY KEY, data_json,
\* gpt_json): a function from the keys of the rows to [data_json, gpt_json]
\* ------------------------------------------------------------------------
\* the lookup finds no row
HasRowSkipped(table, key) == FALSE

\* only the rows whose key is a bare number are found
HasRowBare(table, key) == key # None /\ key \in DOMAIN table /\ Len(key) = 1

\* SELECT ... WHERE patent_number=?  (a NULL parameter matches no row)
HasRow(table, key) == key # None /\ key \in DOMAIN table

\* REPLACE INTO patent_cache (patent_number, data_json) VALUES (?, ?):
\* the row of the key is deleted and inserted again, gpt_json is NULL
ReplaceInto(table, key, data_text) ==
    [k \in DOMAIN table \cup {key} |->
        IF k = key THEN [data_json |-> data_text, gpt_json |-> None]
        ELSE table[k]]

\* the categorization is stored whether or not the key has a row
UpdateGptUpsert(table, key, gpt_text) ==
    [k \in DOMAIN table \cup {key} |->
        IF k = key
        THEN [data_json |-> IF k \in DOMAIN table THEN table[k].data_json
                            ELSE None,
              gpt_json |-> gpt_text]
        ELSE table[k]]

\* UPDATE patent_cache SET gpt_json=? WHERE patent_number=?
UpdateGpt(table, key, gpt_text) ==
    [k \in DOMAIN table |->
        IF HasRow(table, key) /\ k = key
        THEN [table[k] EXCEPT !.gpt_json = gpt_text]
        ELSE table[k]]

\* the key is the number alone
CacheKeyNumberOnly(patent_type, normalized_number) == normalized_number

\* f"{patent_type}_{normalized_number}"
CacheKey(patent_type, normalized_number) ==
    TypeStr(patent_type) \o <<"_">> \o normalized_number

\* ------------------------------------------------------------------------
\* query_patent
\* ------------------------------------------------------------------------
SEARCH_URL == "https://search.patentsview.org/api/v1/patent"
LEGACY_URL == "https://api.patentsview.org/patents/query"

\* A query is <<shape, field, value>>: shape "str" is the string
\* "field:value", "dict" is {field: value}, "eq" is {"_eq": {field: value}}
IsStr(q) == q[1] = "str"

\* lines 61-88
search_queries(patent_type, normalized_number, field_type) ==
    IF patent_type = PatentApplication
    THEN IF field_type = "publication_number"
         THEN << <<"str", "publication_number", normalized_number>>,
                 <<"dict", "publication_number", normalized_number>>,
                 <<"eq", "publication_number", normalized_number>> >>
         ELSE << <<"str", "application_number", normalized_number>>,
                 <<"dict", "application_number", normalized_number>>,
                 <<"eq", "application_number", normalized_number>> >>
    ELSE << <<"str", "patent_id", normalized_number>>,
            <<"dict", "patent_number", normalized_number>>,
            <<"eq", "patent_number", normalized_number>>,
            <<"dict", "patent_id", normalized_number>> >>

\* lines 69-70, 77-78, 87-88
fields(patent_type, field_type) ==
    IF patent_type = PatentApplication
    THEN IF field_type = "publication_number"
         THEN <<"publication_number", "patent_title", "patent_abstract",
                "publication_date", "application_number", "app_date",
                "assignee_organization", "inventor_name_first",
                "inventor_name_last">>
         ELSE <<"application_number", "patent_title", "patent_abstract",
                "publication_date", "publication_number", "app_date",
                "assignee_organization", "inventor_name_first",
                "inventor_name_last">>
    ELSE <<"patent_id", "patent_number", "patent_title", "patent_abstract",
           "patent_date", "application_number", "app_date",
           "assignee_organization", "inventor_name_first",
           "inventor_name_last">>

\* line 142: f.replace("patent_id", "patent_number") on every field name;
\* no other field name contains "patent_id"
LegacyFields(fl) ==
    [i \in 1..Len(fl) |-> IF fl[i] = "patent_id" THEN "patent_number" ELSE fl[i]]

\* lines 114-126
normalized_patent(p, patent_type) ==
    [patent_number |-> PyOr(PyOr(Get(p, "patent_id"), Get(p, "patent_number")),
                            Get(p, "publication_number")),
     patent_title |-> Get(p, "patent_title"),
     patent_abstract |-> Get(p, "patent_abstract"),
     patent_date |-> PyOr(Get(p, "patent_date"), Get(p, "publication_date")),
     filing_date |-> Get(p, "app_date"),
     application_number |-> Get(p, "application_number"),
     publication_number |-> Get(p, "publication_number"),
     assignee_organization |-> Get(p, "assignee_organization"),
     inventor_first_name |-> Get(p, "inventor_name_first"),
     inventor_last_name |-> Get(p, "inventor_name_last"),
     patent_type |-> TypeStr(patent_type)]

\* lines 112-127
normalized_data(data, patent_type) ==
    [patents |-> [i \in 1..Len(data.patents) |->
                     normalized_patent(data.patents[i], patent_type)]]

\* lines 161-162: patent["patent_type"] = patent_type on every patent
WithPatentType(data, patent_type) ==
    [patents |-> [i \in 1..Len(data.patents) |->
        [k \in DOMAIN data.patents[i] \cup {"patent_type"} |->
            IF k = "patent_type" THEN TypeStr(patent_type)
            ELSE data.patents[i][k]]]]

\* A response of requests.post: [kind |-> "exception"] (timeout or
\* connection error), or [kind |-> "http", status, json, data] where json
\* says whether the body is JSON and data is the decoded body.
IsException(r) == r.kind = "exception"

\* an empty result set counts as data
HasPatentsKeyOnly(data) == "patents" \in DOMAIN data

\* lines 110, 159:  "patents" in data and data["patents"]
HasPatents(data) == "patents" \in DOMAIN data /\ data.patents # <<>>

\* the response carries a non-empty result set
YieldsData(r) ==
    /\ ~IsException(r)
    /\ r.status = 200
    /\ r.json
    /\ HasPatents(r.data)

\* lines 92-132, the loop over search_queries inside the try: the outcome
\* of the loop from query i on.  sresps holds the responses of the
\* PatentSearch requests still to be made, log the requests made so far.
\* stage "primary" means the function returned at line 132.
RECURSIVE PrimaryLoop(_, _, _, _, _, _)
PrimaryLoop(queries, i, sresps, fl, patent_type, log) ==
    IF i > Len(queries) THEN [stage |-> "none", log |-> log]
    ELSE IF ~IsStr(queries[i])
    THEN PrimaryLoop(queries, i + 1, sresps, fl, patent_type, log)
    ELSE
        LET r == Head(sresps)
            log2 == Append(log, [url |-> SEARCH_URL, q |-> queries[i],
                                 fl |-> fl])
        IN
        IF IsException(r) THEN [stage |-> "none", log |-> log2]
        ELSE IF r.status # 200
        THEN PrimaryLoop(queries, i + 1, Tail(sresps), fl, patent_type, log2)
        ELSE IF ~r.json THEN [stage |-> "none", log |-> log2]
        ELSE IF HasPatents(r.data)
        THEN [stage |-> "primary", log |-> log2,
              data |-> normalized_data(r.data, patent_type)]
        ELSE PrimaryLoop(queries, i + 1, Tail(sresps), fl, patent_type, log2)

\* the loop ends at the first legacy request that yields no data
RECURSIVE LegacyLoopBreak(_, _, _, _, _, _)
LegacyLoopBreak(queries, i, lresps, fl, patent_type, log) ==
    IF i > Len(queries) THEN [stage |-> "none", log |-> log]
    ELSE IF IsStr(queries[i])
    THEN LegacyLoopBreak(queries, i + 1, lresps, fl, patent_type, log)
    ELSE
        LET r == Head(lresps)
            log2 == Append(log, [url |-> LEGACY_URL, q |-> queries[i],
                                 fl |-> LegacyFields(fl)])
        IN
        IF YieldsData(r)
        THEN [stage |-> "legacy", log |-> log2,
              data |-> WithPatentType(r.data, patent_type)]
        ELSE [stage |-> "none", log |-> log2]

\* the shapes after the one that yields data are requested as well
RECURSIVE LegacyLoopAll(_, _, _, _, _, _)
LegacyLoopAll(queries, i, lresps, fl, patent_type, log) ==
    IF i > Len(queries) THEN [stage |-> "none", log |-> log]
    ELSE IF IsStr(queries[i])
    THEN LegacyLoopAll(queries, i + 1, lresps, fl, patent_type, log)
    ELSE
        LET r == Head(lresps)
            log2 == Append(log, [url |-> LEGACY_URL, q |-> queries[i],
                                 fl |-> LegacyFields(fl)])
            rest == LegacyLoopAll(queries, i + 1, Tail(lresps), fl,
                                  patent_type, log2)
        IN
        IF YieldsData(r)
        THEN [stage |-> "legacy", log |-> rest.log,
              data |-> WithPatentType(r.data, patent_type)]
        ELSE rest

\* lines 138-176, the loop over search_queries of the legacy API
RECURSIVE LegacyLoop(_, _, _, _, _, _)
LegacyLoop(queries, i, lresps, fl, patent_type, log) ==
    IF i > Len(queries) THEN [stage |-> "none", log |-> log]
    ELSE IF IsStr(queries[i])
    THEN LegacyLoop(queries, i + 1, lresps, fl, patent_type, log)
    ELSE
        LET r == Head(lresps)
            log2 == Append(log, [url |-> LEGACY_URL, q |-> queries[i],
                                 fl |-> LegacyFields(fl)])
        IN
        IF YieldsData(r)
        THEN [stage |-> "legacy", log |-> log2,
              data |-> WithPatentType(r.data, patent_type)]
        ELSE LegacyLoop(queries, i + 1, Tail(lresps), fl, patent_type, log2)

\* the number of requests each API is sent when no request yields data
NumStr(queries) == Len(SelectSeq(queries, IsStr))
NumDict(queries) == Len(queries) - NumStr(queries)

\* query_patent(patent_input, patent_type) on the table `table`, with the
\* responses the two APIs would give.  The outcome is
\*   [raised, result, table, log, stage, key]
\* where raised says that an exception left the function, result is the
\* returned value (None when nothing was found), table is the table after
\* the call and log the sequence of requests made.
query_patent(table, patent_input, patent_type, sresps, lresps) ==
    LET nf == normalize_patent_number(patent_input, patent_type)
        normalized_number == nf[1]
        field_type == nf[2]
        cache_key == CacheKey(patent_type, normalized_number)
        queries == search_queries(patent_type, normalized_number, field_type)
        fl == fields(patent_type, field_type)
        primary == PrimaryLoop(queries, 1, sresps, fl, patent_type, <<>>)
        legacy == LegacyLoop(queries, 1, lresps, fl, patent_type, primary.log)
    IN
    IF HasRow(table, cache_key)
    THEN IF IsJson(table[cache_key].data_json)
         THEN [raised |-> FALSE, result |-> Loads(table[cache_key].data_json),
               table |-> table, log |-> <<>>, stage |-> "cache",
               key |-> cache_key]
         ELSE [raised |-> TRUE, result |-> None, table |-> table,
               log |-> <<>>, stage |-> "cache", key |-> cache_key]
    ELSE IF primary.stage = "primary"
    THEN [raised |-> FALSE, result |-> primary.data,
          table |-> ReplaceInto(table, cache_key, Dumps(primary.data)),
          log |-> primary.log, stage |-> "primary", key |-> cache_key]
    ELSE IF legacy.stage = "legacy"
    THEN [raised |-> FALSE, result |-> legacy.data,
          table |-> ReplaceInto(table, cache_key, Dumps(legacy.data)),
          log |-> legacy.log, stage |-> "legacy", key |-> cache_key]
    ELSE [raised |-> FALSE, result |-> None, table |-> table,
          log |-> legacy.log, stage |-> "none", key |-> cache_key]

\* ------------------------------------------------------------------------
\* call_together_llama3 and categorize_with_llm
\* ------------------------------------------------------------------------
\* line 258: response_text[:500]
RawLimit == 500

\* the backquote character is written "'"
Backquote == "'"

Fence == <<Backquote, Backquote, Backquote>>
FenceJson == Fence \o <<"j", "s", "o", "n">>

\* The text of a JSON object is "{", one character that stands for the
\* members of the object, "}".
Categories == {"a", "b"}

\* json.loads succeeds on the text
IsResultJson(text) ==
    Len(text) = 3 /\ text[1] = "{" /\ text[2] \in Categories /\ text[3] = "}"

\* json.loads(text), only called when IsResultJson(text)
LoadsResult(text) == [primary_category |-> <<text[2]>>]

\* json.dumps(result)
DumpsResult(result) == <<"{", result.primary_category[1], "}">>

\* lines 242-247
CleanResponse(response_text) ==
    LET t1 == Strip(response_text)
        t2 == IF StartsWith(t1, FenceJson) THEN SubSeq(t1, 8, Len(t1)) ELSE t1
        t3 == IF EndsWith(t2, Fence) THEN SubSeq(t2, 1, Len(t2) - 3) ELSE t2
    IN Strip(t3)

\* line 258
Truncate(text) == SubSeq(text, 1, Min(Len(text), RawLimit))

ErrorValue(msg) == [error |-> <<msg>>]

IsError(v) == "error" \in DOMAIN v

\* A response of the LLM endpoint: [kind |-> "exception"], or
\* [kind |-> "http", status, json, choices, content]: json says whether
\* the body is JSON, choices whether body["choices"][0]["message"]["content"]
\* exists, content is that text.

\* the stored categorization is returned without the try of line 216
GptCachedUnchecked(table, patent_number) ==
    /\ HasRow(table, patent_number)
    /\ Truthy(table[patent_number].gpt_json)

\* lines 213-219: the row of the number holds a categorization that
\* json.loads accepts
GptCached(table, patent_number) ==
    /\ HasRow(table, patent_number)
    /\ Truthy(table[patent_number].gpt_json)
    /\ IsResultJson(table[patent_number].gpt_json)

\* the text that json.loads rejects is stored as the categorization
categorize_stores_raw(table, patent_data, api_key, std_json_error, r) ==
    LET patent == patent_data.patents[1]
        patent_number == GetOr(patent, "patent_number", <<>>)
        cached == GptCached(table, patent_number)
        response_text == CleanResponse(r.content)
        result == LoadsResult(response_text)
    IN
    \* line 207: patent_data['patents'][0]
    IF patent_data.patents = <<>>
    THEN [raised |-> TRUE, table |-> table, llm_calls |-> 0, result |-> None]
    ELSE IF cached
    THEN [raised |-> FALSE, table |-> table, llm_calls |-> 0,
          result |-> LoadsResult(table[patent_number].gpt_json)]
    ELSE IF ~api_key
    THEN [raised |-> FALSE, table |-> table, llm_calls |-> 0,
          result |-> ErrorValue("Together API key not found")]
    ELSE IF r.kind = "exception"
    THEN [raised |-> FALSE, table |-> table, llm_calls |-> 1,
          result |-> ErrorValue("request failed")]
    ELSE IF r.status # 200
    THEN [raised |-> FALSE, table |-> table, llm_calls |-> 1,
          result |-> ErrorValue("Together API Error")]
    ELSE IF ~r.json
    THEN IF std_json_error
         \* line 258 reads response_text, which line 239 did not assign
         THEN [raised |-> TRUE, table |-> table, llm_calls |-> 1,
               result |-> None]
         ELSE [raised |-> FALSE, table |-> table, llm_calls |-> 1,
               result |-> ErrorValue("body is not JSON")]
    ELSE IF ~r.choices
    THEN [raised |-> FALSE, table |-> table, llm_calls |-> 1,
          result |-> ErrorValue("KeyError")]
    ELSE IF IsResultJson(response_text)
    THEN [raised |-> FALSE, llm_calls |-> 1, result |-> result,
          table |-> UpdateGpt(table, patent_number, DumpsResult(result))]
    ELSE [raised |-> FALSE, llm_calls |-> 1,
          table |-> UpdateGpt(table, patent_number, Truncate(response_text)),
          result |-> [error |-> <<"Failed to parse LLM response as JSON">>,
                      raw_response |-> Truncate(response_text)]]

\* categorize_with_llm(patent_data) on the table `table`.  api_key says
\* whether TOGETHER_API_KEY is set; std_json_error says whether the
\* exception response.json() raises on a body that is not JSON is a
\* json.JSONDecodeError (it is unless simplejson is installed).
\* The outcome is [raised, result, table, llm_calls].
categorize_with_llm(table, patent_data, api_key, std_json_error, r) ==
    LET patent == patent_data.patents[1]
        patent_number == GetOr(patent, "patent_number", <<>>)
        cached == GptCached(table, patent_number)
        response_text == CleanResponse(r.content)
        result == LoadsResult(response_text)
    IN
    \* line 207: patent_data['patents'][0]
    IF patent_data.patents = <<>>
    THEN [raised |-> TRUE, table |-> table, llm_calls |-> 0, result |-> None]
    ELSE IF cached
    THEN [raised |-> FALSE, table |-> table, llm_calls |-> 0,
          result |-> LoadsResult(table[patent_number].gpt_json)]
    ELSE IF ~api_key
    THEN [raised |-> FALSE, table |-> table, llm_calls |-> 0,
          result |-> ErrorValue("Together API key not found")]
    ELSE IF r.kind = "exception"
    THEN [raised |-> FALSE, table |-> table, llm_calls |-> 1,
          result |-> ErrorValue("request failed")]
    ELSE IF r.status # 200
    THEN [raised |-> FALSE, table |-> table, llm_calls |-> 1,
          result |-> ErrorValue("Together API Error")]
    ELSE IF ~r.json
    THEN IF std_json_error
         \* line 258 reads response_text, which line 239 did not assign
         THEN [raised |-> TRUE, table |-> table, llm_calls |-> 1,
               result |-> None]
         ELSE [raised |-> FALSE, table |-> table, llm_calls |-> 1,
               result |-> ErrorValue("body is not JSON")]
    ELSE IF ~r.choices
    THEN [raised |-> FALSE, table |-> table, llm_calls |-> 1,
          result |-> ErrorValue("KeyError")]
    ELSE IF IsResultJson(response_text)
    THEN [raised |-> FALSE, llm_calls |-> 1, result |-> result,
          table |-> UpdateGpt(table, patent_number, DumpsResult(result))]
    ELSE [raised |-> FALSE, table |-> table, llm_calls |-> 1,
          result |-> [error |-> <<"Failed to parse LLM response as JSON">>,
                      raw_response |-> Truncate(response_text)]]

\* ------------------------------------------------------------------------
\* The environment: what the user types, what the APIs answer
\* ------------------------------------------------------------------------
LongNumber == <<"2", "0", "0", "0", "0", "0", "0", "0", "0", "0", "1">>

\* the submissions of the form: <<text typed, patent type selected>>
Submissions ==
    { <<<<"1">>, GrantedPatent>>,
      <<<<" ", "U", "S", "1", "-", "B", "1">>, GrantedPatent>>,
      <<<<"1">>, PatentApplication>>,
      <<LongNumber, PatentApplication>> }

Title == <<"T">>
Abstract == <<"A">>
Date == <<"D">>
Other == <<"9">>

\* the result sets a PatentSearch response may carry for the number n
SearchResults(n) ==
    { <<[patent_id |-> n, patent_number |-> Other, patent_title |-> Title,
         patent_abstract |-> Abstract, patent_date |-> Date]>>,
      <<[patent_id |-> <<>>, patent_number |-> n, patent_title |-> Title,
         publication_date |-> Date]>>,
      <<[patent_title |-> Title, patent_abstract |-> None]>> }

\* the result sets a legacy response may carry for the number n
LegacyResults(n) ==
    { <<[patent_number |-> n, patent_title |-> Title,
         patent_abstract |-> Abstract],
        [patent_number |-> Other]>> }

Timeout == [kind |-> "exception"]

HttpError == [kind |-> "http", status |-> 500, json |-> FALSE, data |-> <<>>]

BadJson == [kind |-> "http", status |-> 200, json |-> FALSE, data |-> <<>>]

Ok(data) == [kind |-> "http", status |-> 200, json |-> TRUE, data |-> data]

Empty == Ok([patents |-> <<>>])

NoPatents == Ok([error |-> <<"e">>])

\* the ways a request fails to yield data
Failures == <<Timeout, HttpError, BadJson, Empty, NoPatents>>

\* m failed requests, the kinds of failure taken in rotation from the s-th
Rotation(s, m) ==
    [i \in 1..m |-> Failures[((s + i - 2) % Len(Failures)) + 1]]

\* the scenario in which request j is the first to yield data: the
\* requests before it fail, the requests after it are not made
YieldAt(s, m, j, results) ==
    [i \in 1..m |-> IF i < j THEN Rotation(s, m)[i]
                    ELSE IF i = j THEN Ok([patents |-> results])
                    ELSE Timeout]

\* A scenario is the sequence of the responses to the m requests a call
\* can make, the PatentSearch request first.  Every kind of failure occurs
\* at every request.
Scenarios(n, m) ==
    { Rotation(s, m) : s \in 1..Len(Failures) }
    \cup { YieldAt(1, m, 1, res) : res \in SearchResults(n) }
    \cup { YieldAt(s, m, j, res) :
             s \in 1..Len(Failures), j \in 2..m, res \in LegacyResults(n) }

\* the scenarios of a session: one kind of failure
PlainScenarios(n, m) ==
    { Rotation(1, m) }
    \cup { YieldAt(1, m, 1, res) : res \in SearchResults(n) }
    \cup { YieldAt(1, m, 2, res) : res \in LegacyResults(n) }

\* the response is a 200 whose JSON body has a non-empty "patents"
Yields(r) ==
    /\ r.kind = "http"
    /\ r.status = 200
    /\ r.json
    /\ "patents" \in DOMAIN r.data
    /\ Len(r.data.patents) > 0

AllFail(scenario) == \A i \in 1..Len(scenario) : ~Yields(scenario[i])

JsonObject == <<"{", "a", "}">>

LongText == [i \in 1..(RawLimit + 1) |-> "x"]

Content(text) ==
    [kind |-> "http", status |-> 200, json |-> TRUE, choices |-> TRUE,
     content |-> text]

NoResponse == [kind |-> "exception"]

LlmResponses ==
    { NoResponse,
      [kind |-> "http", status |-> 500, json |-> FALSE, choices |-> FALSE,
       content |-> <<>>],
      [kind |-> "http", status |-> 200, json |-> FALSE, choices |-> FALSE,
       content |-> <<>>],
      [kind |-> "http", status |-> 200, json |-> TRUE, choices |-> FALSE,
       content |-> <<>>],
      Content(JsonObject),
      Content(<<" ">> \o FenceJson \o <<"\n">> \o JsonObject \o <<"\n">>
                  \o Fence \o <<"\n">>),
      Content(Fence \o <<"\n">> \o JsonObject \o <<"\n">> \o Fence),
      Content(<<"x">>),
      Content(LongText) }

PlainLlmResponses == { NoResponse, Content(JsonObject) }

\* the file patents_cache.db outlives the process (line 18, CREATE TABLE IF
\* NOT EXISTS): the table at startup is empty, or holds a row whose
\* data_json is damaged, or a row another version of the tool wrote under
\* the bare patent number
StoredData == Dumps([patents |-> <<[patent_number |-> <<"1">>,
                                    patent_title |-> Title]>>])

EmptyTable == [k \in {} |-> None]

OneRow(key, data_text, gpt_text) ==
    [k \in {key} |-> [data_json |-> data_text, gpt_json |-> gpt_text]]

InitialTables ==
    { EmptyTable,
      OneRow(CacheKey(GrantedPatent, <<"1">>), Garbage, None),
      OneRow(<<"1">>, StoredData, None),
      OneRow(<<"1">>, StoredData, <<"{", "x", "}">>),
      OneRow(<<"1">>, StoredData, <<"{", "b", "}">>) }

\* ------------------------------------------------------------------------
\* State
\* ------------------------------------------------------------------------
VARIABLES
    db,               \* the table patent_cache
    api_key,          \* line 10: TOGETHER_API_KEY is set
    pc,               \* "idle", or "categorize" between lines 299 and 385
    patent_data,      \* the value query_patent returned in this run
    runs,             \* script runs started
    q,                \* what the query_patent call of this run did
    c,                \* what the categorize_with_llm call of this run did
    fetched,          \* key -> record the live retrieval stored
    categorized       \* <<record, result>> of the successful LLM calls

vars == <<db, api_key, pc, patent_data, runs, q, c, fetched, categorized>>

NoCall == [kind |-> "none"]

Init ==
    /\ db \in InitialTables
    /\ api_key \in BOOLEAN
    /\ pc = "idle"
    /\ patent_data = None
    /\ runs = 0
    /\ q = NoCall
    /\ c = NoCall
    /\ fetched = EmptyTable
    /\ categorized = {}

\* lines 297-301: the script run calls query_patent with the stripped
\* input.  scenario is what the APIs would answer, page whether the public
\* page of the patent could be fetched.
QueryPatent(patent_input, patent_type, scenario, page) ==
    LET out == query_patent(db, Strip(patent_input), patent_type,
                            <<Head(scenario)>>, Tail(scenario))
        live == out.stage \in {"primary", "legacy"}
    IN
    /\ pc = "idle"
    /\ runs' = runs + 1
    /\ db' = out.table
    /\ patent_data' = out.result
    /\ pc' = IF out.raised \/ out.stage = "none" THEN "idle" ELSE "categorize"
    /\ q' = [kind |-> "query", patent_input |-> patent_input,
             patent_type |-> patent_type, key |-> out.key,
             row |-> out.key \in DOMAIN db,
             damaged |-> out.key \in DOMAIN db
                         /\ db[out.key].data_json = Garbage,
             raised |-> out.raised, stage |-> out.stage,
             result |-> out.result, log |-> out.log,
             unchanged |-> (out.table = db),
             scenario |-> scenario, page |-> page,
             fetched_before |-> out.key \in DOMAIN fetched,
             prev |-> IF out.key \in DOMAIN fetched THEN fetched[out.key]
                      ELSE None]
    /\ c' = NoCall
    /\ fetched' = IF live
                  THEN [k \in DOMAIN fetched \cup {out.key} |->
                           IF k = out.key THEN out.result ELSE fetched[k]]
                  ELSE fetched
    /\ UNCHANGED <<api_key, categorized>>

\* line 385: the script run calls categorize_with_llm on the record.
\* std_json_error: the exception the installed requests raises on a body
\* that is not JSON is a json.JSONDecodeError; r: the response of the
\* endpoint.
Categorize(std_json_error, r) ==
    LET out == categorize_with_llm(db, patent_data, api_key, std_json_error, r)
        parsed == ~out.raised /\ out.llm_calls = 1 /\ ~IsError(out.result)
        number == IF patent_data.patents # <<>>
                     /\ "patent_number" \in DOMAIN patent_data.patents[1]
                  THEN patent_data.patents[1].patent_number ELSE <<>>
    IN
    /\ pc = "categorize"
    /\ pc' = "idle"
    /\ out.llm_calls = 0 => r = NoResponse
    /\ std_json_error \/ (r.kind = "http" /\ r.status = 200 /\ ~r.json)
    /\ db' = out.table
    /\ patent_data' = None
    /\ q' = NoCall
    /\ c' = [kind |-> "categorize", patent_data |-> patent_data,
             raised |-> out.raised, result |-> out.result,
             llm_calls |-> out.llm_calls, response |-> r,
             api_key |-> api_key, std_json_error |-> std_json_error,
             unchanged |-> (out.table = db),
             number |-> number,
             row |-> number \in DOMAIN db,
             gpt_json |-> IF number \in DOMAIN db THEN db[number].gpt_json
                          ELSE None,
             prior |-> {pr[2] : pr \in {x \in categorized :
                                           x[1] = patent_data}}]
    /\ categorized' = IF parsed
                      THEN categorized \cup {<<patent_data, out.result>>}
                      ELSE categorized
    /\ UNCHANGED <<api_key, runs, fetched>>

\* the requests a call for the submission can make
Requests(sub) ==
    LET nf == normalize_patent_number(Strip(sub[1]), sub[2])
    IN 1 + NumDict(search_queries(sub[2], nf[1], nf[2]))

Number(sub) == normalize_patent_number(Strip(sub[1]), sub[2])[1]

\* a script run, at most max of them; every says whether every kind of
\* failure is considered
Submit(every, max) ==
    \E sub \in Submissions :
      \E scenario \in IF every THEN Scenarios(Number(sub), Requests(sub))
                      ELSE PlainScenarios(Number(sub), Requests(sub)),
         page \in BOOLEAN :
        /\ runs < max
        /\ page => AllFail(scenario)
        /\ QueryPatent(sub[1], sub[2], scenario, page)

\* a session: several runs, one kind of failure
Next ==
    \/ Submit(FALSE, MaxRuns)
    \/ \E r \in PlainLlmResponses : Categorize(TRUE, r)

Spec == Init /\ [][Next]_vars

\* single calls: every kind of failure at every request
NextCall ==
    \/ Submit(TRUE, CallRuns)
    \/ \E std_json_error \in BOOLEAN, r \in LlmResponses :
         Categorize(std_json_error, r)

SpecCall == Init /\ [][NextCall]_vars

\* ------------------------------------------------------------------------
\* Properties of query_patent and categorize_with_llm
\* ------------------------------------------------------------------------
Queried == q.kind = "query"

Categorized == c.kind = "categorize"

\* the call found no row under its key
Miss == Queried /\ ~q.row

\* the first request of the scenario that yields data, 0 when none does
RECURSIVE FirstYield(_, _)
FirstYield(scenario, i) ==
    IF i > Len(scenario) THEN 0
    ELSE IF Yields(scenario[i]) THEN i
    ELSE FirstYield(scenario, i + 1)

\* the record carries every patent of the response, field by field
Carries(record, response) ==
    /\ Len(record.patents) = Len(response.data.patents)
    /\ \A i \in 1..Len(record.patents) :
         \A k \in DOMAIN response.data.patents[i] :
            /\ k \in DOMAIN record.patents[i]
            /\ record.patents[i][k] = response.data.patents[i][k]

\* C1: when the table holds a record under the key of the call,
\* query_patent returns that record and sends no request to the
\* PatentSearch API nor to the legacy API.
CachePrecedence ==
    (Queried /\ q.row /\ ~q.damaged) =>
        /\ ~q.raised
        /\ q.stage = "cache"
        /\ q.log = <<>>
        /\ q.result = Loads(db[q.key].data_json)

\* a call for "US1-B1" is served the record an earlier call stored, though
\* the PatentSearch API would have answered
CachePrecedenceWitness ==
    /\ Queried /\ q.row /\ ~q.damaged
    /\ q.fetched_before
    /\ Len(q.patent_input) = 7
    /\ Yields(q.scenario[1])

\* C2: when the PatentSearch request and every legacy request yield no
\* data, query_patent returns None and the table is what it was.
TotalFailure ==
    (Miss /\ AllFail(q.scenario)) =>
        /\ ~q.raised
        /\ q.stage = "none"
        /\ q.unchanged

\* all four requests of a granted patent fail, each in another way
TotalFailureWitness ==
    /\ Miss /\ AllFail(q.scenario)
    /\ Len(q.log) = 4
    /\ q.scenario = <<Timeout, HttpError, BadJson, Empty>>
    /\ q.stage = "none"

\* C3: once categorize_with_llm has parsed a categorization of a record,
\* the next call for the same record returns that categorization and
\* sends no request to the LLM endpoint.
CategorizationIdempotence ==
    (Categorized /\ c.prior # {}) =>
        /\ c.llm_calls = 0
        /\ ~c.raised
        /\ c.result \in c.prior

\* C4: when the row under the key of the call holds a data_json that is
\* not JSON, query_patent does not raise and sends the PatentSearch
\* request.
DamagedCacheIsMiss ==
    (Queried /\ q.damaged) =>
        /\ ~q.raised
        /\ Len(q.log) >= 1
        /\ q.log[1].url = SEARCH_URL

\* C5: a request that times out, answers a status other than 200, a body
\* that is not JSON or an empty result set does not end query_patent: the
\* next request is made, None is returned only when every request has been
\* made, and the data of the first legacy request that yields is returned.
UpstreamFailuresNonFatal ==
    Miss =>
        LET j == FirstYield(q.scenario, 1) IN
        /\ ~q.raised
        /\ Len(q.log) = (IF j = 0 THEN Len(q.scenario) ELSE j)
        /\ q.stage = "none" <=> j = 0
        /\ j > 1 => /\ q.stage = "legacy"
                    /\ Carries(q.result, q.scenario[j])

\* the PatentSearch body is not JSON, two legacy requests fail, the last
\* legacy request of a granted patent yields
UpstreamFailuresWitness ==
    /\ Miss
    /\ q.scenario[1] = BadJson
    /\ FirstYield(q.scenario, 1) = 4
    /\ q.stage = "legacy"

\* C6: every patent of a record query_patent returns has a source:
\* patentsview_search from the PatentSearch API, patentsview_legacy from
\* the legacy API.
SourceTagged ==
    (Queried /\ ~q.raised /\ q.stage # "none") =>
        \A i \in 1..Len(q.result.patents) :
            /\ "source" \in DOMAIN q.result.patents[i]
            /\ q.result.patents[i].source \in
                 {<<"patentsview_search">>, <<"patentsview_legacy">>,
                  <<"google_patents_fallback">>}
            /\ q.stage = "primary" =>
                 q.result.patents[i].source = <<"patentsview_search">>
            /\ q.stage = "legacy" =>
                 q.result.patents[i].source = <<"patentsview_legacy">>

\* C7: when every request fails and the public page of the patent can be
\* fetched, query_patent returns a record whose source is
\* google_patents_fallback.
ScrapeFallback ==
    (Miss /\ AllFail(q.scenario) /\ q.page) =>
        /\ ~q.raised
        /\ q.stage # "none"
        /\ \A i \in 1..Len(q.result.patents) :
              /\ "source" \in DOMAIN q.result.patents[i]
              /\ q.result.patents[i].source = <<"google_patents_fallback">>

\* C8: after a call fetched a record from an API and stored it under its
\* key, a call with the same key returns an equal record.
CacheRoundTrip ==
    (Queried /\ q.fetched_before) =>
        /\ ~q.raised
        /\ q.stage = "cache"
        /\ q.result = q.prev

\* the record of a legacy response, two patents, fields that are None
CacheRoundTripWitness ==
    /\ Queried /\ q.fetched_before
    /\ q.stage = "cache"
    /\ Len(q.prev.patents) = 2
    /\ q.patent_type = PatentApplication

\* C9: categorize_with_llm never raises: it returns a categorization or an
\* error value, and the raw_response of an error value has at most
\* RawLimit characters.
CategorizeNeverRaises ==
    Categorized =>
        /\ ~c.raised
        /\ (IsError(c.result) /\ "raw_response" \in DOMAIN c.result) =>
              Len(c.result.raw_response) <= RawLimit

\* the row categorize_with_llm reads holds a gpt_json that is not JSON
DamagedGpt ==
    /\ Categorized
    /\ c.row
    /\ c.gpt_json # None
    /\ c.gpt_json # <<>>
    /\ ~(c.gpt_json[2] \in Categories)

\* C10: when the row categorize_with_llm reads holds a gpt_json that is
\* not JSON, the call goes on to the LLM endpoint as it does without a
\* gpt_json, and a parsed answer replaces the damaged value.
DamagedGptRecomputed ==
    DamagedGpt =>
        /\ c.api_key => c.llm_calls = 1
        /\ (c.api_key /\ c.response = Content(JsonObject)) =>
              /\ ~c.raised
              /\ c.result = [primary_category |-> <<"a">>]
              /\ db[c.number].gpt_json = JsonObject

DamagedGptWitness ==
    /\ DamagedGpt
    /\ c.llm_calls = 1
    /\ ~c.raised
    /\ ~IsError(c.result)
    /\ db[c.number].gpt_json = JsonObject

\* ------------------------------------------------------------------------
\* normalize_patent_number on its own
\* ------------------------------------------------------------------------
Digits == {"0", "1", "2"}
Separators == {",", "/", "-"}
Alphabet == Digits \cup Separators \cup {" ", "U", "S", "B", "A"}

\* every text of length n over the characters of chars
Texts(chars, n) == UNION { [1..k -> chars] : k \in 0..n }

Zeros(k) == [i \in 1..k |-> "0"]

KindCodes == { <<"B", "1">>, <<"B", "2">>, <<"A", "1">> }

\* [US] digits and separators [kind code], with or without blanks around
ShapedTexts ==
    { pre \o us \o body \o kind \o post :
        pre \in {<<>>, <<" ">>}, us \in {<<>>, <<"U", "S">>},
        body \in Texts(Digits \cup {",", "-"}, MaxLen),
        kind \in KindCodes \cup {<<>>}, post \in {<<>>, <<" ">>} }

\* texts of 9 to 13 characters around the form of a publication number
LongTexts ==
    { a \o Zeros(k) \o b :
        a \in {<<"2", "0">>, <<"2", "0", "-">>, <<" ", "2", "0">>, <<"0", "2">>},
        k \in 7..10,
        b \in {<<>>, <<"1">>, <<"/", "1">>} }

TypedTexts == Texts(Alphabet, MaxLen) \cup ShapedTexts \cup LongTexts

InitNormalize ==
    /\ db = EmptyTable
    /\ api_key = FALSE
    /\ pc = "idle"
    /\ patent_data = None
    /\ runs = 0
    /\ q \in { [kind |-> "typed", patent_input |-> x, patent_type |-> t] :
                 x \in TypedTexts, t \in PatentTypes }
    /\ c = NoCall
    /\ fetched = EmptyTable
    /\ categorized = {}

\* line 51, and line 51 again on the number it returned
Normalize ==
    LET nf == normalize_patent_number(q.patent_input, q.patent_type) IN
    /\ q.kind = "typed"
    /\ q' = [kind |-> "normalized", patent_input |-> q.patent_input,
             patent_type |-> q.patent_type,
             normalized_number |-> nf[1], field_type |-> nf[2],
             again |-> normalize_patent_number(nf[1], q.patent_type)]
    /\ UNCHANGED <<db, api_key, pc, patent_data, runs, c, fetched, categorized>>

NextNormalize == Normalize

SpecNormalize == InitNormalize /\ [][NextNormalize]_vars

Normalized == q.kind = "normalized"

\* the text without the blanks around it and without , / -
Cleaned(x) == SelectSeq(Strip(x), LAMBDA ch : ch \notin Separators)

\* C11: for a patent application the number is the text typed, trimmed and
\* without , / -; the field is publication_number when the number has 11
\* characters and begins with "20", application_number otherwise.
ApplicationClassified ==
    (Normalized /\ q.patent_type = PatentApplication) =>
        LET cl == Cleaned(q.patent_input) IN
        /\ q.normalized_number = cl
        /\ q.field_type =
             (IF Len(cl) = 11 /\ cl[1] = "2" /\ cl[2] = "0"
              THEN "publication_number" ELSE "application_number")

\* "20-000000000/1": 14 characters typed, 11 left, a publication number
ApplicationClassifiedWitness ==
    /\ Normalized /\ q.patent_type = PatentApplication
    /\ Len(q.patent_input) > 11
    /\ Len(q.normalized_number) = 11
    /\ q.field_type = "publication_number"

\* C12 as stated: normalizing the normalized number gives the same number
\* and field as normalizing the text typed.
NormalizeIdempotent ==
    Normalized => q.again = <<q.normalized_number, q.field_type>>

\* s has a part equal to one of US, B1, B2, A1
HasKindCode(s) ==
    \E i \in 1..(Len(s) - 1) :
        SubSeq(s, i, i + 1) \in KindCodes \cup {<<"U", "S">>}

\* nothing is left to strip from the number
NothingLeft(n, patent_type) ==
    /\ Strip(n) = n
    /\ patent_type = GrantedPatent => ~HasKindCode(n)

\* C12 amended: when the normalized number has no blank around it and, for
\* a granted patent, no US, B1, B2 or A1 in it, normalizing it gives the
\* same number and field as normalizing the text typed.
NormalizeIdempotentOnClean ==
    (Normalized /\ NothingLeft(q.normalized_number, q.patent_type)) =>
        q.again = <<q.normalized_number, q.field_type>>

\* a text of 12 characters with a separator, 11 without
NormalizeIdempotentWitness ==
    /\ Normalized
    /\ NothingLeft(q.normalized_number, q.patent_type)
    /\ q.patent_type = PatentApplication
    /\ Len(q.patent_input) = 12
    /\ Len(q.normalized_number) = 11
    /\ q.field_type = "publication_number"

\* the text without the blanks around it, a leading US and a closing
\* B1, B2 or A1
Body(x) ==
    LET s == Strip(x)
        t == IF StartsWith(s, <<"U", "S">>) THEN SubSeq(s, 3, Len(s)) ELSE s
    IN IF Len(t) >= 2 /\ SubSeq(t, Len(t) - 1, Len(t)) \in KindCodes
       THEN SubSeq(t, 1, Len(t) - 2) ELSE t

\* the text is [US] digits and separators [B1, B2 or A1], blanks around
WellFormed(x) == \A i \in 1..Len(Body(x)) : Body(x)[i] \in Digits \cup Separators

\* C13: for a granted patent typed as [US] digits and separators
\* [B1, B2 or A1] the field is patent_number and the number is the digits
\* of the digit string, in order.
GrantedDigits ==
    (Normalized /\ q.patent_type = GrantedPatent /\ WellFormed(q.patent_input))
    => /\ q.field_type = "patent_number"
       /\ q.normalized_number =
            SelectSeq(Body(q.patent_input), LAMBDA ch : ch \in Digits)

\* " US1-2A1 " gives "12"
GrantedDigitsWitness ==
    /\ Normalized /\ q.patent_type = GrantedPatent
    /\ WellFormed(q.patent_input)
    /\ StartsWith(q.patent_input, <<" ", "U", "S">>)
    /\ EndsWith(q.patent_input, <<"A", "1", " ">>)
    /\ q.normalized_number = <<"1", "2">>

\* ------------------------------------------------------------------------
\* The response of the LLM
\* ------------------------------------------------------------------------
Payloads == { <<"{", x, "}">> : x \in Categories }

\* J between an opening fence line, with or without the tag, and a
\* closing fence
Wrapped(J) ==
    { open \o <<"\n">> \o J \o <<"\n">> \o Fence : open \in {Fence, FenceJson} }

\* C14: a response that is a JSON payload J in a code fence, with or
\* without the json tag, is parsed to the result of the response J alone.
FenceStripping ==
    \A J \in Payloads :
        (/\ Categorized /\ c.llm_calls = 1
         /\ c.response.kind = "http" /\ c.response.status = 200
         /\ c.response.json /\ c.response.choices
         /\ Strip(c.response.content) \in Wrapped(J))
        => /\ ~c.raised
           /\ c.result = categorize_with_llm(EmptyTable, c.patent_data, TRUE,
                                             TRUE, Content(J)).result

\* ------------------------------------------------------------------------
\* The rows of the cache over a session
\* ------------------------------------------------------------------------
\* C15: (a) no call deletes a row of the cache; (b) every row that holds a
\* categorization holds a record, and a categorization call adds no row.
CacheRowsKept ==
    /\ [](\A k \in DOMAIN db :
             db[k].gpt_json # None => db[k].data_json # None)
    /\ [][/\ DOMAIN db \subseteq DOMAIN db'
          /\ Categorized' => DOMAIN db' = DOMAIN db]_vars

\* a categorization call has stored its result on the row of the number
CacheRowsKeptWitness ==
    /\ Categorized /\ ~c.unchanged /\ c.row
    /\ c.number \in DOMAIN db
    /\ db[c.number].gpt_json = DumpsResult(c.result)
    /\ db[c.number].data_json = StoredData

\* ------------------------------------------------------------------------
\* The identifying number of a record
\* ------------------------------------------------------------------------
\* the first of the fields of p, in the order of names, that holds a
\* non-empty value; None when no field does
RECURSIVE FirstNonEmpty(_, _)
FirstNonEmpty(p, names) ==
    IF names = <<>> THEN None
    ELSE IF Head(names) \in DOMAIN p /\ p[Head(names)] # None
            /\ p[Head(names)] # <<>>
    THEN p[Head(names)]
    ELSE FirstNonEmpty(p, Tail(names))

\* C16: every record query_patent fetches has a non-empty identifying
\* number; for a record of the PatentSearch API it is the first non-empty
\* of patent_id, patent_number, publication_number of the result.
IdentifyingNumber ==
    (Queried /\ ~q.raised /\ q.stage \in {"primary", "legacy"}) =>
        LET found == q.scenario[FirstYield(q.scenario, 1)].data.patents IN
        \A i \in 1..Len(q.result.patents) :
            /\ "patent_number" \in DOMAIN q.result.patents[i]
            /\ q.result.patents[i].patent_number # None
            /\ q.result.patents[i].patent_number # <<>>
            /\ q.stage = "primary" =>
                 q.result.patents[i].patent_number =
                     FirstNonEmpty(found[i], <<"patent_id", "patent_number",
                                               "publication_number">>)

\* ------------------------------------------------------------------------
\* The order of the requests of one query_patent call
\* ------------------------------------------------------------------------
\* the queries of the call that are sent to the legacy API, in order
LegacyShapes ==
    LET nf == normalize_patent_number(Strip(q.patent_input), q.patent_type)
    IN SelectSeq(search_queries(q.patent_type, nf[1], nf[2]),
                 LAMBDA x : x[1] # "str")

\* C17: on a cache miss one PatentSearch request is sent, first; legacy
\* requests follow only when it yielded no data, in the order of the
\* legacy shapes; no request follows the first one that yields data, and
\* the record returned is the result set of that response.
StageOrdering ==
    Miss =>
        LET fy == FirstYield(q.scenario, 1)
            n == IF fy = 0 THEN Len(q.scenario) ELSE fy
        IN
        /\ Len(q.log) = n
        /\ q.log[1].url = SEARCH_URL
        /\ \A i \in 2..Len(q.log) :
              /\ q.log[i].url = LEGACY_URL
              /\ q.log[i].q = LegacyShapes[i - 1]
        /\ Len(q.log) > 1 => ~Yields(q.scenario[1])
        /\ q.stage = (IF fy = 0 THEN "none"
                      ELSE IF fy = 1 THEN "primary" ELSE "legacy")
        /\ fy > 1 => Carries(q.result, q.scenario[fy])
        /\ fy = 1 =>
             /\ Len(q.result.patents) = Len(q.scenario[1].data.patents)
             /\ \A i \in 1..Len(q.result.patents) :
                  q.result.patents[i].patent_title =
                      q.scenario[1].data.patents[i].patent_title

\* the second of three legacy shapes yields data after two failures
StageOrderingWitness ==
    /\ Miss
    /\ FirstYield(q.scenario, 1) = 3
    /\ Len(q.scenario) = 4
    /\ Len(q.log) = 3
    /\ q.stage = "legacy"
    /\ q.scenario[1] # q.scenario[2]

\* ------------------------------------------------------------------------
\* The keys of the two patent types
\* ------------------------------------------------------------------------
\* C18: the keys of a granted patent and of a patent application differ
\* even when the numbers are the same, and every record query_patent
\* returns, from the cache or from an API, has the patent type requested.
CacheKeyIsolation ==
    /\ \A s1 \in Submissions, s2 \in Submissions :
          s1[2] # s2[2] =>
             CacheKey(s1[2], Number(s1)) # CacheKey(s2[2], Number(s2))
    /\ (Queried /\ ~q.raised /\ q.stage # "none") =>
          \A i \in 1..Len(q.result.patents) :
             /\ "patent_type" \in DOMAIN q.result.patents[i]
             /\ q.result.patents[i].patent_type = <<q.patent_type>>

\* "1" is looked up as an application while the cache holds the granted
\* patent "1", and is answered by an API
CacheKeyIsolationWitness ==
    /\ Queried /\ ~q.raised
    /\ q.patent_type = PatentApplication
    /\ q.patent_input = <<"1">>
    /\ <<GrantedPatent, "_", "1">> \in DOMAIN fetched
    /\ q.stage \in {"primary", "legacy"}

\* ------------------------------------------------------------------------
\* The record of a row
\* ------------------------------------------------------------------------
\* C19: no call changes the data_json of a row that exists; query_patent
\* writes only when its key had no row, so it replaces no record and
\* resets no stored categorization.
WriteOnce ==
    [][/\ \A k \in DOMAIN db :
             /\ k \in DOMAIN db'
             /\ db'[k].data_json = db[k].data_json
             /\ Queried' => db'[k].gpt_json = db[k].gpt_json
       /\ (Queried' /\ db' # db) =>
             /\ q'.key \notin DOMAIN db
             /\ DOMAIN db' = DOMAIN db \cup {q'.key}]_vars

\* query_patent has written a row next to a row that holds a
\* categorization
WriteOnceWitness ==
    /\ Queried /\ ~q.unchanged
    /\ q.key \in DOMAIN db
    /\ <<"1">> \in DOMAIN db
    /\ db[<<"1">>].gpt_json = <<"{", "b", "}">>
    /\ db[<<"1">>].data_json = StoredData

\* ------------------------------------------------------------------------
\* Categorization that fails
\* ------------------------------------------------------------------------
\* C20: when categorize_with_llm returns an error (no API key, the LLM
\* request failed or was refused, the response is not JSON) the table is
\* as it was before the call; the table changes only when the cleaned
\* response of a request that succeeded is JSON.
FailedCategorizationKeepsCache ==
    /\ (Categorized /\ ~c.raised /\ "error" \in DOMAIN c.result)
          => c.unchanged
    /\ (Categorized /\ ~c.unchanged) =>
          /\ c.llm_calls = 1 /\ c.api_key
          /\ c.response.kind = "http" /\ c.response.status = 200
          /\ c.response.json /\ c.response.choices
          /\ \E J \in Payloads :
                /\ J = SubSeq(Strip(c.response.content),
                              Len(Strip(c.response.content)) - 2,
                              Len(Strip(c.response.content)))
                   \/ J = SubSeq(Strip(c.response.content),
                                 Len(Strip(c.response.content)) - 6,
                                 Len(Strip(c.response.content)) - 4)
                /\ c.result = [primary_category |-> <<J[2]>>]

\* the response is not JSON and the number of the record has a row
FailedCategorizationWitness ==
    /\ Categorized /\ ~c.raised
    /\ "raw_response" \in DOMAIN c.result
    /\ c.row /\ c.gpt_json = None
    /\ c.unchanged

====
